---- MODULE Spec2Model ----
(***************************************************************************)
(* A model of scraper.py: the script run (process_gedore followed by       *)
(* write_data) and a call of process_tooler.  Text is modelled as a        *)
(* sequence of tokens, so that split, replace, strip, join and format are  *)
(* computed rather than assumed.  The web site and the browser are the     *)
(* environment: what a fetch or a click returns is drawn from small sets.  *)
(***************************************************************************)
EXTENDS Integers, Sequences, FiniteSets, TLC

VARIABLES
    pc,                          \* position in the script
    error,                       \* the exception that ended the run, or "none"
    mode,                        \* listing branch taken at lines 190 / 212
    first_bs,                    \* the page fetched at line 188 (291 for tooler)
    bs,                          \* variable bs: a page, or the list of pages
    dom,                         \* the page the headless browser holds
    clicks,
    pagesize,
    page_nr,
    page,                        \* loop variable of line 228
    article_name_manufacturer,
    article_number_manufacturer,
    dkm_number,
    product_urls,
    ean,
    uvp,
    description,
    details,
    product_img_urls,
    downloaded_imgs,
    idx,                         \* position of the loop of line 256 in product_urls
    cur_bs,                      \* process_prod_page: the detail page
    img_urls,                    \* process_prod_page: img_urls
    img_idx,                     \* process_prod_page: position of the loop of line 165
    downloaded_images,           \* process_prod_page: downloaded_images
    img_status,                  \* history: status code of each image request of the page
    cur_row,                     \* the tuple process_prod_page returns
    visited,                     \* history: detail pages whose fields were extracted
    files,                       \* files on disk
    table,                       \* number of times the output table was written
    warned,                      \* number of [WARNING:] lines printed
    net_log                      \* history: network calls, clicks and sleeps in order

listingVars == <<article_name_manufacturer, article_number_manufacturer, dkm_number, product_urls>>
rowVars == <<ean, uvp, description, details, product_img_urls, downloaded_imgs>>
prodVars == <<cur_bs, img_urls, img_idx, downloaded_images, img_status, cur_row>>
pagingVars == <<clicks, pagesize, page_nr, page>>
diskVars == <<files, table, warned>>
vars == <<pc, error, mode, first_bs, bs, dom, pagingVars, listingVars, rowVars,
          idx, prodVars, visited, diskVars, net_log>>

\* ------------------------------------------------------------------ bounds
MaxPerPage == 1
MaxPages == 2
MaxProducts == 2
MaxImgs == 2
MaxClicks == 2

\* ------------------------------------------------------------ text helpers
RECURSIVE SplitFirst(_, _)
\* s.split(sep)[0]: the tokens before the first sep
SplitFirst(s, sep) ==
    IF s = <<>> \/ Head(s) = sep THEN <<>>
    ELSE <<Head(s)>> \o SplitFirst(Tail(s), sep)

RECURSIVE AfterFirst(_, _)
\* what follows the first sep of s; <<>> when s holds no sep
AfterFirst(s, sep) ==
    IF s = <<>> THEN <<>>
    ELSE IF Head(s) = sep THEN Tail(s)
    ELSE AfterFirst(Tail(s), sep)

Contains(s, tok) == \E k \in 1..Len(s) : s[k] = tok

RECURSIVE SplitLast(_, _)
\* s.split(sep)[-1]: the tokens after the last sep
SplitLast(s, sep) ==
    IF Contains(s, sep) THEN SplitLast(AfterFirst(s, sep), sep) ELSE s

\* s.replace(tok, "")
Replace(s, tok) == SelectSeq(s, LAMBDA t : t # tok)

RECURSIVE LStrip(_)
LStrip(s) == IF s # <<>> /\ Head(s) = " " THEN LStrip(Tail(s)) ELSE s

RECURSIVE RStrip(_)
RStrip(s) ==
    IF s # <<>> /\ s[Len(s)] = " " THEN RStrip(SubSeq(s, 1, Len(s) - 1)) ELSE s

\* s.strip()
Strip(s) == RStrip(LStrip(s))

Digits == <<"0", "1", "2", "3", "4", "5", "6", "7", "8", "9">>

RECURSIVE IntToStr(_)
\* str(n) of a natural number, one token per digit
IntToStr(n) ==
    IF n < 10 THEN <<Digits[n + 1]>>
    ELSE IntToStr(n \div 10) \o <<Digits[(n % 10) + 1]>>

DigitValue(t) == (CHOOSE k \in 1..10 : Digits[k] = t) - 1

IsNumber(s) == s # <<>> /\ \A k \in 1..Len(s) : \E d \in 1..10 : Digits[d] = s[k]

RECURSIVE StrToInt(_)
\* int(s) of a digit string
StrToInt(s) ==
    IF s = <<>> THEN 0
    ELSE 10 * StrToInt(SubSeq(s, 1, Len(s) - 1)) + DigitValue(s[Len(s)])

RECURSIVE Join(_)
\* " ".join(list of token strings)
Join(l) ==
    IF l = <<>> THEN <<>>
    ELSE IF Len(l) = 1 THEN l[1]
    ELSE l[1] \o <<" ">> \o Join(Tail(l))

\* os.path.join(a, b) for a relative b
PathJoin(a, b) == a \o <<"/">> \o b

RECURSIVE Flatten(_)
Flatten(ll) == IF ll = <<>> THEN <<>> ELSE Head(ll) \o Flatten(Tail(ll))

SeqUpTo(S, n) == UNION {[1..k -> S] : k \in 0..n}

\* ------------------------------------------------------- script constants
\* line 397
url == <<"https:", "/", "/", "www.gedore.com", "/", "de-de/produkte", "?", "pagesize=24&page=1">>
\* line 399: outdir, passed as img_dir
img_dir == <<"data", "/", "gedore">>
\* line 401
table_path == <<"data", "/", "gedore_drehmomentwerkzeuge.csv">>
img_final_dir == <<"img">>
csv_final_dir == <<"csv">>
RECURSIVE BeforeNth(_, _, _)
\* sep.join(s.split(sep, n)[:n]): the tokens before the n-th sep
BeforeNth(s, sep, n) ==
    IF s = <<>> THEN <<>>
    ELSE IF Head(s) = sep
         THEN IF n = 1 THEN <<>> ELSE <<sep>> \o BeforeNth(Tail(s), sep, n - 1)
         ELSE <<Head(s)>> \o BeforeNth(Tail(s), sep, n)

\* line 113, for a url that starts with http
url_domain == BeforeNth(url, "/", 3)

\* page_url built on the whole url, its query string kept
page_url_keeping_query(p, size) ==
    url \o <<"?", "page=">> \o IntToStr(p) \o <<"&pagesize=">> \o size

\* line 115 and 229: url_page_format.format(url=url.split("?")[0], page=, pagesize=)
page_url(p, size) ==
    SplitFirst(url, "?") \o <<"?", "page=">> \o IntToStr(p) \o <<"&pagesize=">> \o size

\* ------------------------------------------------------------ environment
LinkA == <<"https:", "/", "/", "www.gedore.com", "/", "de-de/a">>
LinkB == <<"https:", "/", "/", "www.gedore.com", "/", "de-de/b">>

\* One product tile of a listing page: the elements of each class it holds.
Teasers ==
    { [name |-> << <<" ", "Dremometer A", " ">> >>, number |-> << <<"8550-05">> >>,
       dkm |-> << <<"7680730">> >>, link |-> <<LinkA>>],
      [name |-> << <<"Torcofix">> >>, number |-> << <<"8560-01", " ">> >>,
       dkm |-> <<>>, link |-> <<LinkB>>] }

TeaserLists == SeqUpTo(Teasers, MaxPerPage)

NoResultText == [li |-> FALSE, span |-> <<>>]
ResultText(n) == [li |-> TRUE, span |-> << <<"1", " von ">> \o IntToStr(n) >>]
NoSelected == [li |-> FALSE, button |-> <<>>]
Selected(v) == [li |-> TRUE, button |-> << v >>]

\* The paging controls a listing page can show.
Controls ==
    { [show_more |-> FALSE, result_text |-> NoResultText, selected |-> NoSelected],
      [show_more |-> TRUE, result_text |-> NoResultText, selected |-> NoSelected],
      [show_more |-> TRUE, result_text |-> ResultText(1), selected |-> Selected(<<"24">>)],
      [show_more |-> FALSE, result_text |-> ResultText(1), selected |-> Selected(<<"48">>)],
      [show_more |-> FALSE, result_text |-> [li |-> TRUE, span |-> <<>>],
       selected |-> Selected(<<"24">>)],
      [show_more |-> FALSE, result_text |-> [li |-> TRUE, span |-> << <<"Seite", "1">> >>],
       selected |-> Selected(<<"24">>)],
      [show_more |-> FALSE, result_text |-> [li |-> TRUE, span |-> << <<"1", " von ", "vielen">> >>],
       selected |-> Selected(<<"24">>)],
      [show_more |-> FALSE, result_text |-> ResultText(1), selected |-> NoSelected],
      [show_more |-> FALSE, result_text |-> ResultText(1),
       selected |-> [li |-> TRUE, button |-> <<>>]] }
    \cup { [show_more |-> FALSE, result_text |-> ResultText(n), selected |-> Selected(<<"24">>)] :
            n \in 0..MaxPages }

ListingPage(c, t) ==
    [show_more |-> c.show_more, result_text |-> c.result_text, selected |-> c.selected,
     teasers |-> t]

ListingPages == { ListingPage(c, t) : c \in Controls, t \in TeaserLists }

NoPage == [show_more |-> FALSE, result_text |-> NoResultText, selected |-> NoSelected,
           teasers |-> <<>>]

\* History entries.
Get(kind, u) == [op |-> "get", kind |-> kind, url |-> u]
Sleep(seconds) == [op |-> "sleep", kind |-> seconds, url |-> <<>>]
DriverGet(u) == [op |-> "driver_get", kind |-> "browser", url |-> u]
Click(outcome) == [op |-> "click", kind |-> outcome, url |-> <<>>]

\* ------------------------------------------------- process_product_listing
\* find_all of one class: the elements of the page in document order
Elements(bs_obj, cls) == Flatten([t \in 1..Len(bs_obj.teasers) |-> bs_obj.teasers[t][cls]])
StripAll(l) == [k \in 1..Len(l) |-> Strip(l[k])]

\* lines 130-134: the texts, stripped, and the hrefs, in document order
process_product_listing(bs_obj) ==
    [article_name |-> StripAll(Elements(bs_obj, "name")),
     article_number |-> StripAll(Elements(bs_obj, "number")),
     dkm_nr |-> StripAll(Elements(bs_obj, "dkm")),
     product_urls_list |-> Elements(bs_obj, "link")]

\* The number of product links a page, or a list of pages, holds.
LinkCount(b) == Len(process_product_listing(b).product_urls_list)
RECURSIVE LinkTotal(_)
LinkTotal(l) == IF l = <<>> THEN 0 ELSE LinkCount(Head(l)) + LinkTotal(Tail(l))

\* ------------------------------------------------------------ the script
OnePage(p) == [list |-> FALSE, page |-> p, pages |-> <<>>]
PageList(l) == [list |-> TRUE, page |-> NoPage, pages |-> l]

NoProdPage == [ean |-> <<>>, price |-> <<>>, desc |-> [div |-> FALSE, ul |-> <<>>],
               details |-> [div |-> FALSE, ul |-> FALSE, tables |-> <<>>, lists |-> <<>>],
               imgs |-> <<>>]
NoRow == [ean |-> <<>>, uvp_prod |-> <<>>, description |-> <<>>, details |-> <<>>,
          img_urls |-> <<>>, downloaded_images |-> <<>>]

Fresh(start, firstPage) ==
    /\ pc = start
    /\ error = "none"
    /\ mode = "none"
    /\ first_bs = firstPage
    /\ bs = OnePage(firstPage)
    /\ dom = firstPage
    /\ clicks = 0
    /\ pagesize = <<>>
    /\ page_nr = 0
    /\ page = 0
    /\ article_name_manufacturer = <<>>
    /\ article_number_manufacturer = <<>>
    /\ dkm_number = <<>>
    /\ product_urls = <<>>
    /\ ean = <<>>
    /\ uvp = <<>>
    /\ description = <<>>
    /\ details = <<>>
    /\ product_img_urls = <<>>
    /\ downloaded_imgs = <<>>
    /\ idx = 0
    /\ cur_bs = NoProdPage
    /\ img_urls = <<>>
    /\ img_idx = 0
    /\ downloaded_images = <<>>
    /\ img_status = <<>>
    /\ cur_row = NoRow
    /\ visited = <<>>
    /\ files = {}
    /\ table = 0
    /\ warned = 0
    /\ net_log = <<>>

\* lines 397-400: the script calls process_gedore(url, outdir)
Init == Fresh("start", NoPage)

\* An exception nothing catches ends the run.
Halt(e) == pc' = "halted" /\ error' = e

\* line 188
FetchListing ==
    /\ pc = "start"
    /\ net_log' = Append(net_log, Get("listing", url))
    /\ \/ \E p \in ListingPages :
             /\ LinkCount(p) <= MaxProducts
             /\ first_bs' = p
             /\ bs' = OnePage(p)
             /\ pc' = "select"
             /\ error' = error
       \/ /\ Halt("ConnectionError")
          /\ UNCHANGED <<first_bs, bs>>
    /\ UNCHANGED <<mode, dom, pagingVars, listingVars, rowVars, idx, prodVars, visited, diskVars>>

\* the branches tested in the other order: numbered pages first
BranchNumberedFirst(p) ==
    IF p.result_text.li THEN "numbered"
    ELSE IF p.show_more THEN "show_more"
    ELSE "single"

\* lines 190 and 212: if show-more link, elif result text, else neither
Branch(p) ==
    IF p.show_more THEN "show_more"
    ELSE IF p.result_text.li THEN "numbered"
    ELSE "single"

\* lines 190-198: the show-more branch up to the click loop; the browser loads the
\* page that line 188 fetched, or the wait of line 196 times out
EnterShowMore ==
    /\ pc = "select"
    /\ Branch(bs.page) = "show_more"
    /\ mode' = "show_more"
    /\ net_log' = Append(net_log, DriverGet(url))
    /\ \/ /\ dom' = bs.page
          /\ clicks' = 0
          /\ pc' = "click_loop"
          /\ error' = error
       \/ /\ Halt("TimeoutException")
          /\ UNCHANGED <<dom, clicks>>
    /\ UNCHANGED <<first_bs, bs, pagesize, page_nr, page, listingVars, rowVars, idx, prodVars,
                   visited, diskVars>>

\* the click loop with the counter raised before the click
ClickShowMoreCountingFirst ==
    /\ pc = "click_loop"
    /\ \/ \E more \in TeaserLists \ {<<>>} :
             /\ clicks < MaxClicks
             /\ LinkCount([dom EXCEPT !.teasers = @ \o more]) <= MaxProducts
             /\ dom' = [dom EXCEPT !.teasers = @ \o more]
             /\ clicks' = clicks + 1
             /\ net_log' = net_log \o <<Click("ok"), Sleep("1")>>
             /\ UNCHANGED <<pc, error>>
       \/ /\ net_log' = Append(net_log, Click("ElementNotInteractableException"))
          /\ clicks' = clicks + 1
          /\ pc' = "page_source"
          /\ UNCHANGED <<dom, error>>
       \/ /\ net_log' = Append(net_log, Click("StaleElementReferenceException"))
          /\ clicks' = clicks + 1
          /\ Halt("StaleElementReferenceException")
          /\ UNCHANGED <<dom>>
    /\ UNCHANGED <<mode, first_bs, bs, pagesize, page_nr, page, listingVars, rowVars, idx,
                   prodVars, visited, diskVars>>

\* lines 199-207: one pass of the click loop; a click that succeeds reveals more tiles
ClickShowMore ==
    /\ pc = "click_loop"
    /\ \/ \E more \in TeaserLists \ {<<>>} :
             /\ clicks < MaxClicks
             /\ LinkCount([dom EXCEPT !.teasers = @ \o more]) <= MaxProducts
             /\ dom' = [dom EXCEPT !.teasers = @ \o more]
             /\ clicks' = clicks + 1
             /\ net_log' = net_log \o <<Click("ok"), Sleep("1")>>
             /\ UNCHANGED <<pc, error>>
       \/ /\ net_log' = Append(net_log, Click("ElementNotInteractableException"))
          /\ pc' = "page_source"
          /\ UNCHANGED <<dom, clicks, error>>
       \/ /\ net_log' = Append(net_log, Click("StaleElementReferenceException"))
          /\ Halt("StaleElementReferenceException")
          /\ UNCHANGED <<dom, clicks>>
    /\ UNCHANGED <<mode, first_bs, bs, pagesize, page_nr, page, listingVars, rowVars, idx,
                   prodVars, visited, diskVars>>

\* lines 208-210
ReadPageSource ==
    /\ pc = "page_source"
    /\ bs' = OnePage(dom)
    /\ pc' = "listing"
    /\ UNCHANGED <<error, mode, first_bs, dom, pagingVars, listingVars, rowVars, idx, prodVars,
                   visited, diskVars, net_log>>

\* lines 224-225: the page size and the page count of the first page
ReadPaging(p) ==
    IF ~p.selected.li THEN [exc |-> "AttributeError", pagesize |-> <<>>, page_nr |-> 0]
    ELSE IF p.selected.button = <<>> THEN [exc |-> "TypeError", pagesize |-> <<>>, page_nr |-> 0]
    ELSE IF p.result_text.span = <<>>
         THEN [exc |-> "AttributeError", pagesize |-> <<>>, page_nr |-> 0]
    ELSE IF ~Contains(p.result_text.span[1], " von ")
         THEN [exc |-> "IndexError", pagesize |-> <<>>, page_nr |-> 0]
    ELSE IF ~IsNumber(SplitFirst(AfterFirst(p.result_text.span[1], " von "), " von "))
         THEN [exc |-> "ValueError", pagesize |-> <<>>, page_nr |-> 0]
    ELSE [exc |-> "none", pagesize |-> p.selected.button[1],
          page_nr |-> StrToInt(SplitFirst(AfterFirst(p.result_text.span[1], " von "), " von "))]

\* lines 212, 224-227: the numbered-pages branch up to its loop
EnterNumbered ==
    /\ pc = "select"
    /\ Branch(bs.page) = "numbered"
    /\ mode' = "numbered"
    /\ IF ReadPaging(bs.page).exc = "none"
       THEN /\ pagesize' = ReadPaging(bs.page).pagesize
            /\ page_nr' = ReadPaging(bs.page).page_nr
            /\ bs' = PageList(<<>>)
            /\ page' = 1
            /\ pc' = IF ReadPaging(bs.page).page_nr >= 1 THEN "page_loop" ELSE "listing"
            /\ error' = error
       ELSE /\ Halt(ReadPaging(bs.page).exc)
            /\ UNCHANGED <<pagesize, page_nr, bs, page>>
    /\ UNCHANGED <<first_bs, dom, clicks, listingVars, rowVars, idx, prodVars, visited, diskVars,
                   net_log>>

\* lines 228-231: one pass of the page loop; page 1 is the page the listing url names
FetchPage ==
    /\ pc = "page_loop"
    /\ page <= page_nr
    /\ \/ \E t \in IF page = 1 THEN {first_bs.teasers} ELSE TeaserLists :
             /\ LinkTotal(bs.pages) + LinkCount(ListingPage(first_bs, t)) <= MaxProducts
             /\ bs' = PageList(Append(bs.pages, ListingPage(first_bs, t)))
             /\ net_log' = net_log \o <<Get("listing", page_url(page, pagesize)), Sleep("0.01")>>
             /\ page' = page + 1
             /\ pc' = IF page + 1 <= page_nr THEN "page_loop" ELSE "listing"
             /\ error' = error
       \/ /\ net_log' = Append(net_log, Get("listing", page_url(page, pagesize)))
          /\ Halt("ConnectionError")
          /\ UNCHANGED <<bs, page>>
    /\ UNCHANGED <<mode, first_bs, dom, clicks, pagesize, page_nr, listingVars, rowVars, idx,
                   prodVars, visited, diskVars>>

\* neither branch of lines 190 and 212: bs stays the page of line 188
EnterSingle ==
    /\ pc = "select"
    /\ Branch(bs.page) = "single"
    /\ mode' = "single"
    /\ pc' = "listing"
    /\ UNCHANGED <<error, first_bs, bs, dom, pagingVars, listingVars, rowVars, idx, prodVars,
                   visited, diskVars, net_log>>

RECURSIVE ConcatListing(_, _)
\* lines 239-244: the columns of the pages, appended page by page
ConcatListing(l, field) ==
    IF l = <<>> THEN <<>>
    ELSE process_product_listing(Head(l))[field] \o ConcatListing(Tail(l), field)

\* lines 234-246
ListingColumn(b, field) ==
    IF b.list THEN ConcatListing(b.pages, field) ELSE process_product_listing(b.page)[field]

\* lines 234-255: the listing columns, then the empty product columns
ExtractListing ==
    /\ pc = "listing"
    /\ article_name_manufacturer' = ListingColumn(bs, "article_name")
    /\ article_number_manufacturer' = ListingColumn(bs, "article_number")
    /\ dkm_number' = ListingColumn(bs, "dkm_nr")
    /\ product_urls' = ListingColumn(bs, "product_urls_list")
    /\ idx' = 1
    /\ pc' = IF ListingColumn(bs, "product_urls_list") = <<>> THEN "build_df" ELSE "prod_page"
    /\ UNCHANGED <<error, mode, first_bs, bs, dom, pagingVars, rowVars, prodVars, visited,
                   diskVars, net_log>>

\* ------------------------------------------------------------ detail pages
ImgSrcs == << <<"/", "media", "/", "a.png", "?", "w=800">>,
              <<"/", "media", "/", "b.png">>,
              <<"/", "thumbs", "/", "a.png">> >>
ImgSrc(k) == ImgSrcs[((k - 1) % Len(ImgSrcs)) + 1]

DescOk == [div |-> TRUE, ul |-> << <<"<ul>", "Drehmomentschluessel", "</ul>">> >>]
DetailsOk == [div |-> TRUE, ul |-> TRUE, tables |-> << <<"Technische Daten">> >>,
              lists |-> << << <<"Antrieb", ": ", "1/4">>, <<"Laenge", ": ", "210">> >> >>]

ProdA(k) == [ean |-> << <<"EAN", " ", "4010886000011", " ">> >>,
             price |-> << <<" ", "129,00", " ">> >>,
             desc |-> DescOk, details |-> DetailsOk,
             imgs |-> [n \in 1..k |-> ImgSrc(n)]]
ProdB == [ean |-> << <<" ", "EAN", "4010886000028">> >>, price |-> <<>>,
          desc |-> DescOk, details |-> DetailsOk, imgs |-> <<>>]

\* What a detail fetch can return: complete pages, and pages lacking one piece of markup.
ProdPages ==
    { ProdA(k) : k \in {0, MaxImgs} }
    \cup { ProdB,
           [ProdB EXCEPT !.desc = [div |-> TRUE, ul |-> <<>>]],
           [ProdB EXCEPT !.ean = <<>>],
           [ProdB EXCEPT !.desc = [div |-> FALSE, ul |-> <<>>]],
           [ProdB EXCEPT !.details = [div |-> FALSE, ul |-> FALSE, tables |-> <<>>, lists |-> <<>>]],
           [ProdB EXCEPT !.details = [div |-> TRUE, ul |-> FALSE, tables |-> <<>>, lists |-> <<>>]],
           [ProdB EXCEPT !.details = [div |-> TRUE, ul |-> TRUE, tables |-> <<>>, lists |-> <<>>]],
           [ProdB EXCEPT !.details.lists = << << <<"Antrieb 1/4">> >> >>] }

RECURSIVE SplitAll(_, _)
\* s.split(sep)
SplitAll(s, sep) ==
    IF Contains(s, sep) THEN <<SplitFirst(s, sep)>> \o SplitAll(AfterFirst(s, sep), sep)
    ELSE <<s>>

\* lines 146-149: the rows of the i-th list
DetailRows(d, i) == [n \in 1..Len(d.lists[i]) |-> <<d.tables[i]>> \o SplitAll(d.lists[i][n], ": ")]

\* line 149: pd.DataFrame(cur_tab, columns=content_columns) takes rows of three cells
RowsFit(rows) ==
    /\ \E n \in 1..Len(rows) : Len(rows[n]) = 3
    /\ \A m \in 1..Len(rows) : Len(rows[m]) <= 3

\* lines 142-150
process_details(bs_prod) ==
    IF ~bs_prod.details.div \/ ~bs_prod.details.ul
    THEN [exc |-> "AttributeError", rows |-> <<>>]
    ELSE IF \E i \in 1..Len(bs_prod.details.lists) :
               /\ i > Len(bs_prod.details.tables)
               /\ \A h \in 1..(i - 1) : RowsFit(DetailRows(bs_prod.details, h))
         THEN [exc |-> "IndexError", rows |-> <<>>]
    ELSE IF \/ bs_prod.details.lists = <<>>
            \/ \E i \in 1..Len(bs_prod.details.lists) : ~RowsFit(DetailRows(bs_prod.details, i))
         THEN [exc |-> "ValueError", rows |-> <<>>]
    ELSE [exc |-> "none",
          rows |-> Flatten([i \in 1..Len(bs_prod.details.lists) |-> DetailRows(bs_prod.details, i)])]

\* line 29: one line of cells per row
df2str(rows) == Flatten([n \in 1..Len(rows) |-> Join(rows[n]) \o <<"\n">>])

\* lines 172-173
ExtractUvp(p) == IF p.price = <<>> THEN <<"NA">> ELSE Strip(p.price[1])

\* the EAN handled as the list price is: "NA" when the container is missing
ExtractEanOrNA(p) ==
    IF p.ean = <<>> THEN [exc |-> "none", text |-> <<"NA">>]
    ELSE [exc |-> "none", text |-> Strip(Replace(p.ean[1], "EAN"))]

\* line 174
ExtractEan(p) ==
    IF p.ean = <<>> THEN [exc |-> "AttributeError", text |-> <<>>]
    ELSE [exc |-> "none", text |-> Strip(Replace(p.ean[1], "EAN"))]

\* line 175
ExtractDescription(p) ==
    IF ~p.desc.div THEN [exc |-> "AttributeError", text |-> <<>>]
    ELSE [exc |-> "none", text |-> IF p.desc.ul = <<>> THEN <<"None">> ELSE p.desc.ul[1]]

\* lines 174-176: the first exception the extraction raises
ExtractExc(p) ==
    IF ExtractEan(p).exc # "none" THEN ExtractEan(p).exc
    ELSE IF ExtractDescription(p).exc # "none" THEN ExtractDescription(p).exc
    ELSE process_details(p).exc

\* line 163
ImgUrls(p) == [n \in 1..Len(p.imgs) |-> url_domain \o SplitFirst(p.imgs[n], "?")]

\* line 72, with outdir as line 166 passes it
ImgFile(img) == PathJoin(PathJoin(img_dir, img_final_dir), SplitLast(img, "/"))

\* line 179: the file write_data writes
DetailsFile(eanText) == PathJoin(PathJoin(img_dir, csv_final_dir), eanText \o <<".csv">>)

\* lines 159-163
FetchProdPage ==
    /\ pc = "prod_page"
    /\ \/ \E p \in ProdPages :
             /\ cur_bs' = p
             /\ net_log' = net_log \o <<Get("detail", product_urls[idx]), Sleep("0.01")>>
             /\ img_urls' = ImgUrls(p)
             /\ downloaded_images' = <<>>
             /\ img_status' = <<>>
             /\ img_idx' = 1
             /\ pc' = IF img_dir # <<>> /\ ImgUrls(p) # <<>> THEN "img_loop" ELSE "extract"
             /\ error' = error
       \/ /\ net_log' = Append(net_log, Get("detail", product_urls[idx]))
          /\ Halt("ConnectionError")
          /\ UNCHANGED <<cur_bs, img_urls, downloaded_images, img_status, img_idx>>
    /\ UNCHANGED <<mode, first_bs, bs, dom, pagingVars, listingVars, rowVars, idx, cur_row,
                   visited, diskVars>>

\* save_img_from_url raising on a status other than 200
SaveImgRaising ==
    /\ pc = "img_loop"
    /\ \/ /\ net_log' = net_log \o <<Get("image", img_urls[img_idx]), Sleep("0.01")>>
          /\ \/ /\ img_status' = Append(img_status, 200)
                /\ files' = files \cup {ImgFile(img_urls[img_idx])}
                /\ downloaded_images' = Append(downloaded_images, ImgFile(img_urls[img_idx]))
                /\ warned' = warned
                /\ img_idx' = img_idx + 1
                /\ pc' = IF img_idx + 1 <= Len(img_urls) THEN "img_loop" ELSE "extract"
                /\ error' = error
             \/ /\ img_status' = Append(img_status, 404)
                /\ Halt("HTTPError")
                /\ UNCHANGED <<files, downloaded_images, warned, img_idx>>
       \/ /\ net_log' = Append(net_log, Get("image", img_urls[img_idx]))
          /\ Halt("ConnectionError")
          /\ UNCHANGED <<img_status, files, downloaded_images, warned, img_idx>>
    /\ UNCHANGED <<mode, first_bs, bs, dom, pagingVars, listingVars, rowVars, idx, cur_bs,
                   img_urls, cur_row, visited, table>>

\* lines 165-170 with save_img_from_url (lines 72-92): one image
SaveImg ==
    /\ pc = "img_loop"
    /\ \/ /\ net_log' = net_log \o <<Get("image", img_urls[img_idx]), Sleep("0.01")>>
          /\ \/ /\ img_status' = Append(img_status, 200)
                /\ files' = files \cup {ImgFile(img_urls[img_idx])}
                /\ downloaded_images' = Append(downloaded_images, ImgFile(img_urls[img_idx]))
                /\ warned' = warned
             \/ /\ img_status' = Append(img_status, 404)
                /\ warned' = warned + 1
                /\ UNCHANGED <<files, downloaded_images>>
          /\ img_idx' = img_idx + 1
          /\ pc' = IF img_idx + 1 <= Len(img_urls) THEN "img_loop" ELSE "extract"
          /\ error' = error
       \/ /\ net_log' = Append(net_log, Get("image", img_urls[img_idx]))
          /\ Halt("ConnectionError")
          /\ UNCHANGED <<img_status, files, downloaded_images, warned, img_idx>>
    /\ UNCHANGED <<mode, first_bs, bs, dom, pagingVars, listingVars, rowVars, idx, cur_bs,
                   img_urls, cur_row, visited, table>>

\* lines 172-183
ExtractFields ==
    /\ pc = "extract"
    /\ IF ExtractExc(cur_bs) = "none"
       THEN /\ cur_row' =
                 [ean |-> ExtractEan(cur_bs).text,
                  uvp_prod |-> ExtractUvp(cur_bs),
                  description |-> ExtractDescription(cur_bs).text,
                  details |-> IF img_dir # <<>> THEN DetailsFile(ExtractEan(cur_bs).text)
                              ELSE df2str(process_details(cur_bs).rows),
                  img_urls |-> img_urls,
                  downloaded_images |-> downloaded_images]
            /\ files' = IF img_dir # <<>>
                        THEN files \cup {DetailsFile(ExtractEan(cur_bs).text)} ELSE files
            /\ visited' = Append(visited, cur_bs)
            /\ pc' = "append"
            /\ error' = error
       ELSE /\ Halt(ExtractExc(cur_bs))
            /\ UNCHANGED <<cur_row, files, visited>>
    /\ UNCHANGED <<mode, first_bs, bs, dom, pagingVars, listingVars, rowVars, idx, cur_bs,
                   img_urls, img_idx, downloaded_images, img_status, table, warned, net_log>>

\* lines 257-263
AppendRow ==
    /\ pc = "append"
    /\ ean' = Append(Append(ean, cur_row.ean), cur_row.uvp_prod)
    /\ uvp' = uvp
    /\ description' = Append(description, cur_row.description)
    /\ details' = Append(details, cur_row.details)
    /\ product_img_urls' = Append(product_img_urls, Join(cur_row.img_urls))
    /\ downloaded_imgs' = Append(downloaded_imgs, Join(cur_row.downloaded_images))
    /\ idx' = idx + 1
    /\ pc' = IF idx + 1 <= Len(product_urls) THEN "prod_page" ELSE "build_df"
    /\ UNCHANGED <<error, mode, first_bs, bs, dom, pagingVars, listingVars, prodVars, visited,
                   diskVars, net_log>>

\* line 265: the columns of a DataFrame must have one length
ColumnsFit ==
    \A c \in {Len(article_name_manufacturer), Len(article_number_manufacturer), Len(dkm_number),
              Len(uvp), Len(description), Len(details), Len(product_img_urls),
              Len(downloaded_imgs)} : c = Len(ean)

\* lines 265-266
BuildDataFrame ==
    /\ pc = "build_df"
    /\ IF ColumnsFit THEN pc' = "write" /\ error' = error ELSE Halt("ValueError")
    /\ UNCHANGED <<mode, first_bs, bs, dom, pagingVars, listingVars, rowVars, idx, prodVars,
                   visited, diskVars, net_log>>

\* the table written whether or not process_gedore returned
WriteTableAlways ==
    /\ pc \in {"write", "halted"}
    /\ table = 0
    /\ files' = files \cup {table_path}
    /\ table' = table + 1
    /\ pc' = "done"
    /\ UNCHANGED <<error, mode, first_bs, bs, dom, pagingVars, listingVars, rowVars, idx,
                   prodVars, visited, warned, net_log>>

\* line 401
WriteTable ==
    /\ pc = "write"
    /\ files' = files \cup {table_path}
    /\ table' = table + 1
    /\ pc' = "done"
    /\ UNCHANGED <<error, mode, first_bs, bs, dom, pagingVars, listingVars, rowVars, idx,
                   prodVars, visited, warned, net_log>>

Next ==
    \/ FetchListing
    \/ EnterShowMore
    \/ ClickShowMore
    \/ ReadPageSource
    \/ EnterNumbered
    \/ FetchPage
    \/ EnterSingle
    \/ ExtractListing
    \/ FetchProdPage
    \/ SaveImg
    \/ ExtractFields
    \/ AppendRow
    \/ BuildDataFrame
    \/ WriteTable

Spec == Init /\ [][Next]_vars

\* ---------------------------------------------------------- process_tooler
\* line 360, with the manufacturer and a search term filled in
tooler_url == <<"https:", "/", "/", "www.tooler.de", "/", "catalogsearch", "/", "result", "/",
                "?", "limit=120&q=Gedore+Dremometer">>
\* line 322: the page pd.read_html reads
read_html_url == <<"https:", "/", "/", "www.tooler.de", "/", "handwerkzeuge", "/",
                   "gedore-drehmomentschluessel-6234.html">>
\* lines 277 and 279: the two selectors, tag "." class
class_scroll_button == <<"div", ".", "amscroll-load-button">>
class_product_link == <<"a", ".", "product-item-link">>

\* An element of a tooler page: its tag, its class attribute and its href.
Element(tag, class, href) == [tag |-> tag, class |-> class, href |-> href]

\* bs.select(selector): the elements with the selector's tag and class
CssSelect(elements, selector) ==
    SelectSeq(elements, LAMBDA e : /\ e.tag = SplitFirst(selector, ".")[1]
                                   /\ e.class = AfterFirst(selector, "."))

\* bs.find_all(tag, class_=cls): the elements with that tag whose class is cls
FindAll(elements, tag, cls) ==
    SelectSeq(elements, LAMBDA e : e.tag = tag /\ e.class = cls)

Hrefs(elements) == [k \in 1..Len(elements) |-> elements[k].href]

TLinks == { Element("a", <<"product-item-link">>, LinkA),
            Element("a", <<"product-item-link">>, LinkB) }

\* What the shop can show: product links, then the load-more control, and possibly
\* elements whose class attribute is spelled like a selector.
TPages ==
    { l \o c \o b \o a :
        l \in SeqUpTo(TLinks, MaxPerPage),
        c \in { <<>>, <<Element("div", <<"amscroll-load-button">>, <<>>)>> },
        b \in { <<>>, <<Element("button", class_scroll_button, <<>>)>> },
        a \in { <<>>, <<Element("a", class_product_link, LinkB)>> } }

InitTooler == Fresh("t_start", <<>>)

\* lines 291-295
TFetchListing ==
    /\ pc = "t_start"
    /\ net_log' = Append(net_log, Get("listing", tooler_url))
    /\ \/ \E p \in TPages :
             /\ first_bs' = p
             /\ bs' = p
             /\ product_urls' = Hrefs(CssSelect(p, class_product_link))
             /\ pc' = IF CssSelect(p, class_scroll_button) # <<>> THEN "t_browser" ELSE "t_read"
             /\ error' = error
       \/ /\ Halt("ConnectionError")
          /\ UNCHANGED <<first_bs, bs, product_urls>>
    /\ UNCHANGED <<mode, dom, pagingVars, article_name_manufacturer,
                   article_number_manufacturer, dkm_number, rowVars, idx, prodVars, visited,
                   diskVars>>

\* lines 296-303
TOpenBrowser ==
    /\ pc = "t_browser"
    /\ net_log' = Append(net_log, DriverGet(tooler_url))
    /\ \/ \E d \in TPages :
             /\ CssSelect(d, class_scroll_button) # <<>>
             /\ dom' = d
             /\ clicks' = 0
             /\ pc' = "t_loop"
             /\ error' = error
       \/ /\ \E e \in {"TimeoutException", "NoSuchElementException"} : Halt(e)
          /\ UNCHANGED <<dom, clicks>>
    /\ UNCHANGED <<mode, first_bs, bs, pagesize, page_nr, page, listingVars, rowVars, idx,
                   prodVars, visited, diskVars>>

\* lines 304-318: one pass of the scroll-and-click loop
TScrollClick ==
    /\ pc = "t_loop"
    /\ \/ /\ CssSelect(dom, class_scroll_button) = <<>>
          /\ Halt("NoSuchElementException")
          /\ UNCHANGED <<dom, bs, product_urls, clicks, net_log>>
       \/ /\ CssSelect(dom, class_scroll_button) # <<>>
          /\ \/ \E d \in TPages :
                   /\ clicks < MaxClicks
                   /\ net_log' = net_log \o <<Click("ok"), Sleep("1")>>
                   /\ dom' = d
                   /\ bs' = d
                   /\ product_urls' =
                          product_urls \o Hrefs(FindAll(d, "a", class_product_link))
                   /\ clicks' = clicks + 1
                   /\ pc' = IF FindAll(d, "button", class_scroll_button) = <<>>
                            THEN "t_read" ELSE "t_loop"
                   /\ error' = error
             \/ /\ net_log' = Append(net_log, Click("ElementNotInteractableException"))
                /\ Halt("ElementNotInteractableException")
                /\ UNCHANGED <<dom, bs, product_urls, clicks>>
    /\ UNCHANGED <<mode, first_bs, pagesize, page_nr, page, article_name_manufacturer,
                   article_number_manufacturer, dkm_number, rowVars, idx, prodVars, visited,
                   diskVars>>

\* lines 321-323
TReadHtml ==
    /\ pc = "t_read"
    /\ net_log' = Append(net_log, Get("detail", read_html_url))
    /\ \/ pc' = "t_done" /\ error' = error
       \/ Halt("ValueError")
    /\ UNCHANGED <<mode, first_bs, bs, dom, pagingVars, listingVars, rowVars, idx, prodVars,
                   visited, diskVars>>

NextTooler ==
    \/ TFetchListing
    \/ TOpenBrowser
    \/ TScrollClick
    \/ TReadHtml

SpecTooler == InitTooler /\ [][NextTooler]_vars

\* ------------------------------------------------------------- properties
Last(l) == l[Len(l)]
ListingGets == SelectSeq(net_log, LAMBDA e : e.op = "get" /\ e.kind = "listing")
AfterListing == {"prod_page", "img_loop", "extract", "append", "build_df", "write", "done"}

\* C1: after the detail loop every per-product column holds one entry per product
\* link, entry i of ean-code being the EAN of the i-th detail page and entry i of
\* uvp its list price.
C1_OneRecordPerPage ==
    pc = "build_df" =>
        /\ Len(visited) = Len(product_urls)
        /\ \A c \in {Len(ean), Len(uvp), Len(description), Len(details), Len(product_img_urls),
                     Len(downloaded_imgs)} : c = Len(product_urls)
        /\ \A k \in 1..Len(product_urls) :
              /\ ean[k] = ExtractEan(visited[k]).text
              /\ uvp[k] = ExtractUvp(visited[k])

RECURSIVE SuccessfulFiles(_, _)
\* The files of the image urls whose request returned 200, in url order.
SuccessfulFiles(urls, status) ==
    IF status = <<>> THEN <<>>
    ELSE (IF Head(status) = 200 THEN <<ImgFile(Head(urls))>> ELSE <<>>)
         \o SuccessfulFiles(Tail(urls), Tail(status))

\* C2: an image request that returns another status than 200 writes no file, prints a
\* warning and stops nothing: the remaining images of the page are still requested, the
\* page's fields are extracted, the remaining product links are processed, and the
\* page's downloaded images are the files of the successful requests in url order.
C2_ImageFailureSkipped ==
    /\ [](/\ pc \in {"img_loop", "extract", "append"} =>
                downloaded_images = SuccessfulFiles(img_urls, img_status)
          /\ pc \in {"extract", "append"} => Len(img_status) = Len(img_urls)
          /\ pc = "append" => cur_row.downloaded_images = SuccessfulFiles(img_urls, img_status)
          /\ pc = "build_df" => Len(visited) = Len(product_urls))
    /\ [][(Len(img_status') = Len(img_status) + 1 /\ Last(img_status') # 200) =>
              /\ files' = files
              /\ warned' = warned + 1
              /\ error' = "none"
              /\ pc' = IF img_idx < Len(img_urls) THEN "img_loop" ELSE "extract"
              /\ img_idx' = img_idx + 1]_vars

C2_Witness ==
    /\ pc = "build_df"
    /\ Len(product_urls) = 2
    /\ warned = 1
    /\ img_status = <<404, 200>>
    /\ Len(downloaded_images) = 1

\* C3: the listing branch is the one the markers of the first page select (show-more
\* whenever a show-more link is there, numbered pages when only the result text is,
\* the fetched page alone otherwise), and once taken it never changes.
C3_ModeFromMarkers ==
    /\ [](/\ mode \in {"none", "show_more", "numbered", "single"}
          /\ (mode # "none" /\ first_bs.show_more) => mode = "show_more"
          /\ (mode # "none" /\ ~first_bs.show_more /\ first_bs.result_text.li) =>
                mode = "numbered"
          /\ (mode # "none" /\ ~first_bs.show_more /\ ~first_bs.result_text.li) =>
                mode = "single"
          /\ (mode = "single" /\ pc \in AfterListing) =>
                /\ bs = OnePage(first_bs)
                /\ ListingGets = <<Get("listing", url)>>
                /\ product_urls = Elements(first_bs, "link"))
    /\ [][mode # "none" => mode' = mode]_vars

C3_Witness ==
    /\ mode = "show_more"
    /\ first_bs.result_text.li
    /\ pc = "click_loop"

\* C4: in numbered-pages mode the listing requests after the first one are the
\* templated urls of pages 1..N in ascending order, each once, and the listing columns
\* are the columns of the fetched pages appended in page order.
C4_NumberedPagesInOrder ==
    mode = "numbered" /\ pc \in ({"page_loop", "listing"} \cup AfterListing) =>
        /\ Len(ListingGets) = (IF pc = "page_loop" THEN page ELSE page_nr + 1)
        /\ ListingGets[1].url = url
        /\ \A p \in 1..(Len(ListingGets) - 1) :
              ListingGets[p + 1].url =
                  SplitFirst(url, "?") \o <<"?", "page=">> \o IntToStr(p)
                      \o <<"&pagesize=">> \o first_bs.selected.button[1]
        /\ page_nr = StrToInt(AfterFirst(first_bs.result_text.span[1], " von "))
        /\ Len(bs.pages) = Len(ListingGets) - 1
        /\ pc \in AfterListing =>
              /\ product_urls = Flatten([p \in 1..page_nr |-> Elements(bs.pages[p], "link")])
              /\ article_name_manufacturer =
                     Flatten([p \in 1..page_nr |-> StripAll(Elements(bs.pages[p], "name"))])
              /\ article_number_manufacturer =
                     Flatten([p \in 1..page_nr |-> StripAll(Elements(bs.pages[p], "number"))])
              /\ dkm_number =
                     Flatten([p \in 1..page_nr |-> StripAll(Elements(bs.pages[p], "dkm"))])

C4_Witness ==
    /\ mode = "numbered"
    /\ pc = "prod_page"
    /\ page_nr = 2
    /\ product_urls = <<LinkB, LinkA>>

OkClicks == Len(SelectSeq(net_log, LAMBDA e : e = Click("ok")))

\* C5 as stated: whatever failure the click on the show-more control raises, the
\* click loop ends and the run goes on.
C5_AnyClickFailureEndsLoop ==
    [][(net_log' # net_log /\ Last(net_log').op = "click" /\ Last(net_log').kind # "ok") =>
          pc' = "page_source" /\ error' = "none"]_vars

\* C5, amended: an ElementNotInteractableException of the click ends the click loop,
\* the run goes on with the page the browser holds as the listing, and the click counter
\* is the number of clicks that succeeded; any other exception of the click halts the run.
C5_NotInteractableEndsLoop ==
    /\ [](/\ mode = "show_more" => clicks = OkClicks
          /\ (mode = "show_more" /\ pc = "listing") => bs = OnePage(dom)
          /\ (mode = "show_more" /\ pc \in AfterListing) =>
                product_urls = Elements(dom, "link"))
    /\ [][(net_log' # net_log /\ Last(net_log').op = "click" /\ Last(net_log').kind # "ok") =>
             /\ clicks' = clicks
             /\ dom' = dom
             /\ IF Last(net_log').kind = "ElementNotInteractableException"
                THEN pc' = "page_source" /\ error' = "none"
                ELSE pc' = "halted" /\ error' = Last(net_log').kind]_vars

C5_Witness ==
    /\ mode = "show_more"
    /\ pc = "prod_page"
    /\ clicks = 2
    /\ Last(net_log) = Click("ElementNotInteractableException")

\* C6: each pass of the scroll-and-click loop appends the product links of the page as
\* it is then, and the loop goes on exactly while the load-more control is still in
\* the page.
C6_LoopWhileControlPresent ==
    [][clicks' = clicks + 1 =>
          /\ product_urls' = product_urls \o Hrefs(CssSelect(bs', class_product_link))
          /\ (pc' = "t_loop") <=> (CssSelect(bs', class_scroll_button) # <<>>)]_vars

\* C7 as stated: no row comes from a detail page that lacks the markup of one of the
\* extracted fields (EAN, list price, description, details).
C7_MissingMarkupAlwaysRaises ==
    \A k \in 1..Len(visited) :
        /\ visited[k].ean # <<>>
        /\ visited[k].price # <<>>
        /\ visited[k].desc.div
        /\ visited[k].details.div

\* C7, amended: every failure halts the run and nothing follows it; a first page that
\* lacks the page-size or the page-count control halts the numbered branch; no row comes
\* from a detail page without the EAN, description or details container; a page
\* without a list price gives the row "NA", a description without a list gives "None".
C7_FailuresHaltExceptPrice ==
    /\ [](/\ error # "none" <=> pc = "halted"
          /\ (mode = "numbered" /\ (\/ ~first_bs.selected.li
                                    \/ first_bs.selected.button = <<>>
                                    \/ first_bs.result_text.span = <<>>)) =>
                pc = "halted" /\ error \in {"AttributeError", "TypeError"}
          /\ \A k \in 1..Len(visited) :
                /\ visited[k].ean # <<>>
                /\ visited[k].desc.div
                /\ visited[k].details.div
                /\ visited[k].details.ul
          /\ pc = "append" =>
                /\ cur_bs.price = <<>> => cur_row.uvp_prod = <<"NA">>
                /\ cur_bs.price # <<>> => cur_row.uvp_prod = Strip(cur_bs.price[1])
                /\ cur_bs.desc.ul = <<>> => cur_row.description = <<"None">>)
    /\ [][pc # "halted"]_vars

C7_Witness ==
    /\ pc = "append"
    /\ cur_bs.price = <<>>
    /\ cur_bs.desc.ul # <<>>
    /\ cur_row.uvp_prod = <<"NA">>

\* C8: between two network requests of a run there is always a pause.
C8_PauseBetweenNetworkCalls ==
    \A k \in 1..Len(net_log) : \A m \in (k + 1)..Len(net_log) :
        (net_log[k].op = "get" /\ net_log[m].op = "get") =>
            \E j \in (k + 1)..(m - 1) : net_log[j].op = "sleep"

\* C9: the scroll-and-click loop ends only when the load-more control is found absent
\* after a click; while the control stays in the page the loop goes on.
C9_LoopEndsOnlyOnSignal ==
    (pc \in {"t_read", "t_done"} /\ clicks > 0) => CssSelect(bs, class_scroll_button) = <<>>

\* C10: the output table is written at most once, only at the end of a run in which
\* nothing failed and every detail page was processed; a run that halts writes no
\* table, and no file once written is removed.
C10_TableWrittenLast ==
    /\ [](/\ table <= 1
          /\ table_path \in files <=> table = 1
          /\ table = 1 =>
                /\ pc = "done"
                /\ error = "none"
                /\ Len(visited) = Len(product_urls)
                /\ mode # "none"
          /\ pc = "halted" => table = 0)
    /\ [][files \subseteq files']_vars

C10_Witness ==
    /\ pc = "halted"
    /\ idx = 2
    /\ ImgFile(url_domain \o SplitFirst(ImgSrc(1), "?")) \in files
    /\ DetailsFile(<<"4010886000011">>) \in files
    /\ table = 0

====
